---- MODULE Spec2Model ----
(***************************************************************************)
(* Escrowise admin control plane: the role/permission catalog and check    *)
(* (lib/adminPermissions.ts) and the admin request handlers for escrow     *)
(* transactions, user profiles and generic table rows.  Every handler is   *)
(* an async function; each await on the storage client is one atomic step, *)
(* so requests of concurrent administrators interleave between steps.      *)
(***************************************************************************)
EXTENDS Integers, Sequences, FiniteSets, TLC

VARIABLES db, audit_logs, reqs, started, now, auth

vars == <<db, audit_logs, reqs, started, now, auth>>

(***************************************************************************)
(* Bounds of the model.                                                    *)
(***************************************************************************)
\* the number of requests that arrive in a behaviour
MaxRequests == 1

\* the two request slots: two administrators' requests may be in flight at once
Slots == {"r1", "r2"}

(***************************************************************************)
(* Values.                                                                 *)
(***************************************************************************)
\* JavaScript null for a string-valued field
NullStr == "null"

\* data: null of a storage read (no row)
NoRow == [absent |-> TRUE]

\* no payload / no response yet
NoPayload == [none |-> TRUE]

\* a request body on which req.json() throws
Malformed == [malformed |-> TRUE]

Range(f) == {f[x] : x \in DOMAIN f}

(***************************************************************************)
(* Permission catalog (lib/adminPermissions.ts).                           *)
(***************************************************************************)
ADMIN_PERMISSIONS ==
    [VIEW_TRANSACTIONS   |-> "view_transactions",
     EDIT_TRANSACTIONS   |-> "edit_transactions",
     CANCEL_TRANSACTIONS |-> "cancel_transactions",
     DELETE_TRANSACTIONS |-> "delete_transactions",
     VIEW_USERS          |-> "view_users",
     EDIT_USERS          |-> "edit_users",
     DEACTIVATE_USERS    |-> "deactivate_users",
     VERIFY_USERS        |-> "verify_users",
     VIEW_DATA           |-> "view_data",
     EDIT_DATA           |-> "edit_data",
     DELETE_DATA         |-> "delete_data",
     VIEW_AUDIT_LOGS     |-> "view_audit_logs",
     MANAGE_SETTINGS     |-> "manage_settings",
     VIEW_ANALYTICS      |-> "view_analytics",
     MANAGE_DISPUTES     |-> "manage_disputes"]

\* Object.values(ADMIN_PERMISSIONS), in declaration order
PermissionValues ==
    << ADMIN_PERMISSIONS.VIEW_TRANSACTIONS, ADMIN_PERMISSIONS.EDIT_TRANSACTIONS,
       ADMIN_PERMISSIONS.CANCEL_TRANSACTIONS, ADMIN_PERMISSIONS.DELETE_TRANSACTIONS,
       ADMIN_PERMISSIONS.VIEW_USERS, ADMIN_PERMISSIONS.EDIT_USERS,
       ADMIN_PERMISSIONS.DEACTIVATE_USERS, ADMIN_PERMISSIONS.VERIFY_USERS,
       ADMIN_PERMISSIONS.VIEW_DATA, ADMIN_PERMISSIONS.EDIT_DATA,
       ADMIN_PERMISSIONS.DELETE_DATA, ADMIN_PERMISSIONS.VIEW_AUDIT_LOGS,
       ADMIN_PERMISSIONS.MANAGE_SETTINGS, ADMIN_PERMISSIONS.VIEW_ANALYTICS,
       ADMIN_PERMISSIONS.MANAGE_DISPUTES >>

\* the permissions arrays hold one object per identifier; only p.id is read
ADMIN_ROLES ==
    [SUPER_ADMIN |-> [id |-> "super_admin", permissions |-> PermissionValues],
     ADMIN       |-> [id |-> "admin",
                      permissions |->
                        << ADMIN_PERMISSIONS.VIEW_TRANSACTIONS,
                           ADMIN_PERMISSIONS.EDIT_TRANSACTIONS,
                           ADMIN_PERMISSIONS.CANCEL_TRANSACTIONS,
                           ADMIN_PERMISSIONS.VIEW_USERS,
                           ADMIN_PERMISSIONS.EDIT_USERS,
                           ADMIN_PERMISSIONS.DEACTIVATE_USERS,
                           ADMIN_PERMISSIONS.VERIFY_USERS,
                           ADMIN_PERMISSIONS.VIEW_DATA,
                           ADMIN_PERMISSIONS.EDIT_DATA,
                           ADMIN_PERMISSIONS.VIEW_AUDIT_LOGS,
                           ADMIN_PERMISSIONS.VIEW_ANALYTICS,
                           ADMIN_PERMISSIONS.MANAGE_DISPUTES >>],
     MODERATOR   |-> [id |-> "moderator",
                      permissions |->
                        << ADMIN_PERMISSIONS.VIEW_TRANSACTIONS,
                           ADMIN_PERMISSIONS.VIEW_USERS,
                           ADMIN_PERMISSIONS.EDIT_USERS,
                           ADMIN_PERMISSIONS.VERIFY_USERS,
                           ADMIN_PERMISSIONS.VIEW_ANALYTICS,
                           ADMIN_PERMISSIONS.MANAGE_DISPUTES >>]]

\* String.prototype.toUpperCase on the role strings a profile may hold
toUpperCase(s) ==
    CASE s = "admin"       -> "ADMIN"
      [] s = "Admin"       -> "ADMIN"
      [] s = "moderator"   -> "MODERATOR"
      [] s = "Moderator"   -> "MODERATOR"
      [] s = "super_admin" -> "SUPER_ADMIN"
      [] s = "superAdmin"  -> "SUPERADMIN"
      [] s = "user"        -> "USER"
      [] OTHER             -> "OTHER"

\* the outcomes of .from("profiles").select("role").eq("id", adminId).single():
\* the row, "no rows" as an error, a storage error, or a rejected promise
ProfileLookup(profiles, adminId) ==
    (IF adminId \in DOMAIN profiles /\ profiles[adminId] # NoRow
        THEN {[throws |-> FALSE, error |-> FALSE, profile |-> profiles[adminId]]}
        ELSE {[throws |-> FALSE, error |-> TRUE, profile |-> NoRow]})
    \cup {[throws |-> FALSE, error |-> TRUE,  profile |-> NoRow],
          [throws |-> FALSE, error |-> FALSE, profile |-> NoRow],
          [throws |-> TRUE,  error |-> FALSE, profile |-> NoRow]}

\* hasAdminPermission looking the role up without toUpperCase()
hasAdminPermission_NoUpperCase(lookup, permission) ==
    IF lookup.throws THEN FALSE
    ELSE IF lookup.error \/ lookup.profile = NoRow THEN FALSE
    ELSE IF lookup.profile.role = "admin" THEN TRUE
    ELSE IF lookup.profile.role = NullStr THEN FALSE
    ELSE LET key == lookup.profile.role
         IN  IF key \notin DOMAIN ADMIN_ROLES THEN FALSE
             ELSE \E i \in DOMAIN ADMIN_ROLES[key].permissions :
                      ADMIN_ROLES[key].permissions[i] = permission

\* hasAdminPermission without the admin short-circuit: admin is looked up
\* in the catalog like every other role
hasAdminPermission_NoBypass(lookup, permission) ==
    IF lookup.throws THEN FALSE
    ELSE IF lookup.error \/ lookup.profile = NoRow THEN FALSE
    ELSE IF lookup.profile.role = NullStr THEN FALSE
    ELSE LET key == toUpperCase(lookup.profile.role)
         IN  IF key \notin DOMAIN ADMIN_ROLES THEN FALSE
             ELSE \E i \in DOMAIN ADMIN_ROLES[key].permissions :
                      ADMIN_ROLES[key].permissions[i] = permission

\* hasAdminPermission whose catch block and error branch answer true
hasAdminPermission_FailOpen(lookup, permission) ==
    IF lookup.throws THEN TRUE
    ELSE IF lookup.error \/ lookup.profile = NoRow THEN TRUE
    ELSE IF lookup.profile.role = "admin" THEN TRUE
    ELSE IF lookup.profile.role = NullStr THEN TRUE
    ELSE LET key == toUpperCase(lookup.profile.role)
         IN  IF key \notin DOMAIN ADMIN_ROLES THEN FALSE
             ELSE \E i \in DOMAIN ADMIN_ROLES[key].permissions :
                      ADMIN_ROLES[key].permissions[i] = permission

hasAdminPermission(lookup, permission) ==
    IF lookup.throws THEN FALSE
    ELSE IF lookup.error \/ lookup.profile = NoRow THEN FALSE
    ELSE IF lookup.profile.role = "admin" THEN TRUE
    \* null.toUpperCase() throws a TypeError, caught by the catch block
    ELSE IF lookup.profile.role = NullStr THEN FALSE
    ELSE LET key == toUpperCase(lookup.profile.role)
         IN  IF key \notin DOMAIN ADMIN_ROLES THEN FALSE
             ELSE \E i \in DOMAIN ADMIN_ROLES[key].permissions :
                      ADMIN_ROLES[key].permissions[i] = permission

\* getAdminPermissions listing, for admin, the catalog entry of ADMIN
getAdminPermissions_AdminFromCatalog(lookup) ==
    IF lookup.throws THEN << >>
    ELSE IF lookup.error \/ lookup.profile = NoRow THEN << >>
    ELSE IF lookup.profile.role = NullStr THEN << >>
    ELSE LET key == toUpperCase(lookup.profile.role)
         IN  IF key \notin DOMAIN ADMIN_ROLES THEN << >>
             ELSE ADMIN_ROLES[key].permissions

getAdminPermissions(lookup) ==
    IF lookup.throws THEN << >>
    ELSE IF lookup.error \/ lookup.profile = NoRow THEN << >>
    ELSE IF lookup.profile.role = "admin" THEN PermissionValues
    ELSE IF lookup.profile.role = NullStr THEN << >>
    ELSE LET key == toUpperCase(lookup.profile.role)
         IN  IF key \notin DOMAIN ADMIN_ROLES THEN << >>
             ELSE ADMIN_ROLES[key].permissions

\* requireAdminPermission only adds a console.warn to hasAdminPermission
requireAdminPermission(lookup, permission) == hasAdminPermission(lookup, permission)


(***************************************************************************)
(* Storage: the tables the handlers reach through supabaseAdmin.           *)
(***************************************************************************)
\* the ids the storage gives to the rows of audit_logs, in insertion order
LogIds == <<"l1", "l2", "l3", "l4", "l5", "l6">>

LogId(i) == IF i \in DOMAIN LogIds THEN LogIds[i] ELSE "l0"

LogIndex(id) == CHOOSE i \in DOMAIN LogIds : LogIds[i] = id

\* a table maps every id of its universe to a row, or to NoRow; audit_logs is
\* the ledger, one more table to the storage client
Table(t) ==
    IF t \in DOMAIN db THEN db[t]
    ELSE IF t = "audit_logs"
      THEN [k \in {LogId(i) : i \in DOMAIN audit_logs} |-> audit_logs[LogIndex(k)]]
    ELSE << >>

\* .select("*").eq("id", id).single(): data is the row, or null
SelectSingle(t, id) == IF id \in DOMAIN Table(t) THEN Table(t)[id] ELSE NoRow

\* a row with the columns of upd overwritten ({...row, ...upd} on the stored row)
Merge(row, upd) == [f \in DOMAIN row |-> IF f \in DOMAIN upd THEN upd[f] ELSE row[f]]

\* .update(upd).eq("id", id).select().single(): the single-row write.  It is
\* an error when no row matches, when upd names a column the table does not
\* have, or when the new primary key is taken.
UpdateSingle(t, id, upd) ==
    LET tbl == Table(t)
        row == SelectSingle(t, id)
    IN  IF row = NoRow \/ ~(DOMAIN upd \subseteq DOMAIN row)
          THEN [error |-> TRUE]
        ELSE LET new == Merge(row, upd)
             IN  IF new.id = id
                   THEN [error |-> FALSE, data |-> new,
                         table |-> [tbl EXCEPT ![id] = new]]
                 ELSE IF new.id \notin DOMAIN tbl \/ tbl[new.id] # NoRow
                   THEN [error |-> TRUE]
                 ELSE [error |-> FALSE, data |-> new,
                       table |-> [tbl EXCEPT ![id] = NoRow, ![new.id] = new]]

\* object rest destructuring: the payload without the named keys
Without(upd, keys) == [f \in DOMAIN upd \ keys |-> upd[f]]

(***************************************************************************)
(* Requests.                                                               *)
(***************************************************************************)
NoResponse == [status |-> 0, error |-> ""]

IdleReq ==
    [handler |-> "none", pc |-> "idle", actor |-> NullStr, adminId |-> NullStr,
     user |-> NullStr, table |-> "", id |-> "", action |-> "",
     payload |-> NoPayload,
     hasPermission |-> "unchecked", current |-> NoRow, data |-> NoRow,
     before |-> NoRow, written |-> FALSE, audited |-> FALSE,
     response |-> NoResponse]

\* NextResponse.json({ error }, { status }) returned from the handler
Respond(r, status, error) ==
    [r EXCEPT !.pc = "done", !.response = [status |-> status, error |-> error]]

\* the step of slot s leaves it as r; the frames of requests that have been
\* answered are dropped
SetReq(s, r) ==
    reqs' = [x \in DOMAIN reqs |->
               IF x = s THEN r
               ELSE IF reqs[x].pc = "done" THEN IdleReq
               ELSE reqs[x]]

\* the accounts that exist: an admin and a moderator
ActorIds == {"a1", "m1"}

\* requireAdmin() of lib/adminAuth: the caller's authenticated identity as
\* adminId, or an error response when the caller carries none
requireAdmin(actor) ==
    IF actor = NullStr THEN [ok |-> FALSE, status |-> 401, error |-> "Unauthorized"]
    ELSE [ok |-> TRUE, adminId |-> actor]

\* supabaseAdmin.auth.getUser(): the user of the client's session, or null.
\* That session is state of the storage client, not of the request.
getUser == ActorIds \cup {NullStr}

allowedTables ==
    {"profiles", "transactions", "escrow_transactions", "disputes",
     "audit_logs", "verification_queue"}

\* logAdminAction: the insert into audit_logs; an insert error is swallowed,
\* so the ledger either gains the record or stays as it is
AuditRecord(action, entityType, entityId, oldValue, newValue, performedBy) ==
    [action |-> action, entity_type |-> entityType, entity_id |-> entityId,
     old_value |-> oldValue, new_value |-> newValue, performed_by |-> performedBy]

logAdminAction(adminId, action, entityType, entityId, oldValue, newValue) ==
    {Append(audit_logs,
            AuditRecord(action, entityType, entityId, oldValue, newValue, adminId)),
     audit_logs}

(***************************************************************************)
(* Inputs of the requests.                                                 *)
(***************************************************************************)
TxIds == {"t1", "t9"}

\* the statuses of the transition table
States == {"pending", "in_progress", "delivered", "disputed", "completed", "cancelled"}

Terminal == {"completed", "cancelled"}

\* request ids: the rows that were stored (a generic delete removes a row,
\* and a later request for its id finds none)
TxTargets == {"t1"}

UserTargets == {"a1", "m1"}

\* request bodies: a status (one of them outside the transition table), the
\* amount and the parties, the system-owned columns, and a body that is not JSON
TxPayloads ==
    {[status |-> st] : st \in {"pending", "completed", "refunded"}}
    \cup {[amount |-> 200, buyer_id |-> "u3", seller_id |-> "u4"],
          [id |-> "t9", created_at |-> 7], Malformed}

UserPayloads ==
    {[role |-> "user"], [status |-> "inactive"], Malformed}

DataTables == {"escrow_transactions", "profiles", "audit_logs", "secrets"}

DataTargets(t) ==
    CASE t = "escrow_transactions" -> TxTargets
      [] t = "profiles"            -> UserTargets
      [] t = "audit_logs"          -> {LogId(1)}
      [] OTHER                     -> {"zz"}

DataPayloads(t) ==
    CASE t = "escrow_transactions" ->
             {[status |-> "completed"], [id |-> "t9", created_at |-> 7, amount |-> 200]}
      [] t = "profiles"            -> {[role |-> "admin"], [role |-> "user"]}
      [] OTHER                     -> {[status |-> "completed"]}

InitialTx(st) ==
    [id |-> "t1", status |-> st, amount |-> 100, buyer_id |-> "u1",
     seller_id |-> "u2", created_at |-> 0, updated_at |-> 0]

InitialProfile(id, role) ==
    [id |-> id, role |-> role, status |-> "active", created_at |-> 0, updated_at |-> 0]

\* the row of user_profiles that belongs to an account
InitialUserProfile(id) == [id |-> id, verification_status |-> "pending"]

\* the accounts: an admin and a moderator, each with its user_profiles row
InitialAccounts(p) ==
    [profiles      |-> [a1 |-> p, m1 |-> InitialProfile("m1", "moderator")],
     user_profiles |-> [a1 |-> InitialUserProfile("a1"),
                        m1 |-> InitialUserProfile("m1")]]

IdleAuth == [kind |-> "idle"]

\* The stored transaction is at any stage of its life: it was created as
\* pending and the parties' actions have moved it since.
Init ==
    /\ \E st \in States :
         db = [escrow_transactions |-> [t1 |-> InitialTx(st), t9 |-> NoRow]]
              @@ InitialAccounts(InitialProfile("a1", "admin"))
    /\ audit_logs = << >>
    /\ reqs = [s \in Slots |-> IdleReq]
    /\ started = 0
    /\ now = 1
    /\ auth = IdleAuth

(***************************************************************************)
(* A request arrives at a handler; every handler begins with               *)
(*   const auth = await requireAdmin();                                    *)
(*   if (auth instanceof NextResponse) return auth;                        *)
(***************************************************************************)
\* A slot is free when its request has been answered; the first slot is
\* taken first.
Free(s) == reqs[s].pc \in {"idle", "done"}

Arrive(s, handler, actor, table, id, pc) ==
    LET a == requireAdmin(actor)
        r == [IdleReq EXCEPT !.handler = handler, !.actor = actor, !.table = table,
                             !.id = id]
        n == IF a.ok THEN [r EXCEPT !.adminId = a.adminId, !.pc = pc]
                     ELSE Respond(r, a.status, a.error)
    IN  /\ Free(s)
        /\ \A x \in Slots : (x # s /\ Free(x)) => s = "r1"
        /\ started < MaxRequests
        /\ started' = started + 1
        /\ SetReq(s, n)
        /\ UNCHANGED <<db, audit_logs, now, auth>>

Callers == ActorIds \cup {NullStr}

\* ArriveUser without the table allow-list
ArriveUser_NoAllowList(s, handler, actor, table, id, user) ==
    LET a == requireAdmin(actor)
        r == [IdleReq EXCEPT !.handler = handler, !.actor = actor, !.table = table,
                             !.id = id]
        q == [r EXCEPT !.adminId = actor]
        n == IF ~a.ok THEN Respond(r, a.status, a.error)
             ELSE IF user = NullStr THEN Respond(q, 401, "Unauthorized")
             ELSE IF handler = "UserDELETE" /\ user = id
               THEN Respond([q EXCEPT !.user = user], 400,
                            "Cannot deactivate your own account")
             ELSE [q EXCEPT !.user = user, !.pc = "load"]
    IN  /\ Free(s)
        /\ \A x \in Slots : (x # s /\ Free(x)) => s = "r1"
        /\ started < MaxRequests
        /\ started' = started + 1
        /\ SetReq(s, n)
        /\ UNCHANGED <<db, audit_logs, now, auth>>

\* The handlers of users and of generic rows go on with
\*   const { data: { user } } = await supabaseAdmin.auth.getUser();
\*   if (!user) return 401
\* (the generic ones after the table allow-list, 403).  Neither await touches
\* a table, so the arrival runs up to the first read of one.
ArriveUser(s, handler, actor, table, id, user) ==
    LET a == requireAdmin(actor)
        r == [IdleReq EXCEPT !.handler = handler, !.actor = actor, !.table = table,
                             !.id = id]
        q == [r EXCEPT !.adminId = actor]
        n == IF ~a.ok THEN Respond(r, a.status, a.error)
             ELSE IF table \notin allowedTables
               THEN Respond(q, 403, "Table not allowed")
             ELSE IF user = NullStr THEN Respond(q, 401, "Unauthorized")
             ELSE IF handler = "UserDELETE" /\ user = id
               THEN Respond([q EXCEPT !.user = user], 400,
                            "Cannot deactivate your own account")
             ELSE [q EXCEPT !.user = user, !.pc = "load"]
    IN  /\ Free(s)
        /\ \A x \in Slots : (x # s /\ Free(x)) => s = "r1"
        /\ started < MaxRequests
        /\ started' = started + 1
        /\ SetReq(s, n)
        /\ UNCHANGED <<db, audit_logs, now, auth>>

(***************************************************************************)
(* PUT /api/admin/transactions/[id]                                        *)
(***************************************************************************)
TxPUT_arrive(s) ==
    \E actor \in Callers, id \in TxTargets :
        Arrive(s, "TxPUT", actor, "escrow_transactions", id, "permission")

\* await requireAdminPermission(auth.adminId, <permission>); 403 on deny
PermissionStep(s, handler, permission) ==
    LET r == reqs[s]
    IN  /\ r.handler = handler
        /\ r.pc = "permission"
        /\ \E lookup \in ProfileLookup(db.profiles, r.adminId) :
             IF requireAdminPermission(lookup, permission)
               THEN SetReq(s, [r EXCEPT !.hasPermission = "allow", !.pc = "load"])
               ELSE SetReq(s, Respond([r EXCEPT !.hasPermission = "deny"],
                                      403, "Insufficient permissions"))
        /\ UNCHANGED <<db, audit_logs, started, now, auth>>

TxPUT_permission(s) == PermissionStep(s, "TxPUT", ADMIN_PERMISSIONS.EDIT_TRANSACTIONS)

\* updateData = await req.json() (the body is read here; a body that is not
\* JSON throws into the catch block), then the read of the current row
TxPUT_load(s) ==
    LET r   == reqs[s]
        cur == SelectSingle("escrow_transactions", r.id)
    IN  /\ r.handler = "TxPUT"
        /\ r.pc = "load"
        /\ \E updateData \in TxPayloads :
             LET q == [r EXCEPT !.payload = updateData]
             IN  IF updateData = Malformed
                   THEN SetReq(s, Respond(q, 400, "Invalid request data"))
                 ELSE IF cur = NoRow
                   THEN SetReq(s, Respond(q, 404, "Transaction not found"))
                 ELSE SetReq(s, [q EXCEPT !.current = cur, !.pc = "update"])
        /\ UNCHANGED <<db, audit_logs, started, now, auth>>

\* the single-row write of a handler: the table gets the new row and the
\* request keeps it as data; a storage error answers 500 and writes nothing
WriteStep(s, r, t, upd) ==
    LET res == UpdateSingle(t, r.id, upd)
    IN  \/ /\ ~res.error
           /\ db' = [db EXCEPT ![t] = res.table]
           /\ now' = now + 1
           /\ SetReq(s, [r EXCEPT !.data = res.data, !.written = TRUE,
                                  !.before = SelectSingle(t, r.id), !.pc = "audit"])
        \/ /\ SetReq(s, Respond(r, 500, "storage error"))
           /\ UNCHANGED <<db, now>>

\* TxPUT_update with logAdminAction called ahead of the write
TxPUT_update_AuditFirst(s) ==
    LET r == reqs[s]
        upd == [updated_at |-> now] @@ r.payload
    IN  /\ r.handler = "TxPUT"
        /\ r.pc = "update"
        /\ \E log \in logAdminAction(r.adminId, "UPDATE_TRANSACTION", "transaction",
                                     r.id, r.current, upd) :
             audit_logs' = log
        /\ WriteStep(s, r, "escrow_transactions", upd)
        /\ UNCHANGED <<started, auth>>

\* .update({...updateData, updated_at: new Date().toISOString()}).eq("id", id)
TxPUT_update(s) ==
    LET r == reqs[s]
    IN  /\ r.handler = "TxPUT"
        /\ r.pc = "update"
        /\ WriteStep(s, r, "escrow_transactions", [updated_at |-> now] @@ r.payload)
        /\ UNCHANGED <<audit_logs, started, auth>>

\* await logAdminAction(...); return NextResponse.json(data)
TxPUT_audit(s) ==
    LET r == reqs[s]
    IN  /\ r.handler = "TxPUT"
        /\ r.pc = "audit"
        /\ \E log \in logAdminAction(r.adminId, "UPDATE_TRANSACTION", "transaction",
                                     r.id, r.current, r.data) :
             /\ audit_logs' = log
             /\ SetReq(s, Respond([r EXCEPT !.audited = (log # audit_logs)], 200, ""))
        /\ UNCHANGED <<db, started, now, auth>>

(***************************************************************************)
(* DELETE /api/admin/transactions/[id]: cancel                             *)
(***************************************************************************)
TxDELETE_arrive(s) ==
    \E actor \in Callers, id \in TxTargets :
        Arrive(s, "TxDELETE", actor, "escrow_transactions", id, "permission")

TxDELETE_permission(s) ==
    PermissionStep(s, "TxDELETE", ADMIN_PERMISSIONS.CANCEL_TRANSACTIONS)

\* TxDELETE_load without the check of the completed status
TxDELETE_load_Unchecked(s) ==
    LET r   == reqs[s]
        cur == SelectSingle("escrow_transactions", r.id)
    IN  /\ r.handler = "TxDELETE"
        /\ r.pc = "load"
        /\ IF cur = NoRow
             THEN SetReq(s, Respond(r, 404, "Transaction not found"))
             ELSE SetReq(s, [r EXCEPT !.current = cur, !.pc = "update"])
        /\ UNCHANGED <<db, audit_logs, started, now, auth>>

\* the read of the current row, 404 when there is none, 400 when it is completed
TxDELETE_load(s) ==
    LET r   == reqs[s]
        cur == SelectSingle("escrow_transactions", r.id)
    IN  /\ r.handler = "TxDELETE"
        /\ r.pc = "load"
        /\ IF cur = NoRow
             THEN SetReq(s, Respond(r, 404, "Transaction not found"))
           ELSE IF cur.status = "completed"
             THEN SetReq(s, Respond([r EXCEPT !.current = cur], 400,
                                    "Cannot cancel completed transaction"))
           ELSE SetReq(s, [r EXCEPT !.current = cur, !.pc = "update"])
        /\ UNCHANGED <<db, audit_logs, started, now, auth>>

\* .update({status: "cancelled", updated_at: new Date().toISOString()})
TxDELETE_update(s) ==
    LET r == reqs[s]
    IN  /\ r.handler = "TxDELETE"
        /\ r.pc = "update"
        /\ WriteStep(s, r, "escrow_transactions",
                     [status |-> "cancelled", updated_at |-> now])
        /\ UNCHANGED <<audit_logs, started, auth>>

TxDELETE_audit(s) ==
    LET r == reqs[s]
    IN  /\ r.handler = "TxDELETE"
        /\ r.pc = "audit"
        /\ \E log \in logAdminAction(r.adminId, "CANCEL_TRANSACTION", "transaction",
                                     r.id, r.current, r.data) :
             /\ audit_logs' = log
             /\ SetReq(s, Respond([r EXCEPT !.audited = (log # audit_logs)], 200, ""))
        /\ UNCHANGED <<db, started, now, auth>>

(***************************************************************************)
(* PUT /api/admin/users/[id]                                               *)
(***************************************************************************)
UserPUT_arrive(s) ==
    \E actor \in Callers, id \in UserTargets, user \in getUser :
        ArriveUser(s, "UserPUT", actor, "profiles", id, user)

\* req.json(), the read of the current row (404), then the own-role guard
UserPUT_load(s) ==
    LET r   == reqs[s]
        cur == SelectSingle("profiles", r.id)
    IN  /\ r.handler = "UserPUT"
        /\ r.pc = "load"
        /\ \E updateData \in UserPayloads :
             LET q == [r EXCEPT !.payload = updateData]
             IN  IF updateData = Malformed
                   THEN SetReq(s, Respond(q, 400, "Invalid request data"))
                 ELSE IF cur = NoRow
                   THEN SetReq(s, Respond(q, 404, "User not found"))
                 ELSE IF r.user = r.id /\ "role" \in DOMAIN updateData
                         /\ updateData.role # "admin"
                   THEN SetReq(s, Respond([q EXCEPT !.current = cur], 400,
                                          "Cannot change your own admin role"))
                 ELSE SetReq(s, [q EXCEPT !.current = cur, !.pc = "update"])
        /\ UNCHANGED <<db, audit_logs, started, now, auth>>

UserPUT_update(s) ==
    LET r == reqs[s]
    IN  /\ r.handler = "UserPUT"
        /\ r.pc = "update"
        /\ WriteStep(s, r, "profiles", [updated_at |-> now] @@ r.payload)
        /\ UNCHANGED <<audit_logs, started, auth>>

\* await supabaseAdmin.from("audit_logs").insert({...}) inside the handler's
\* try block: the record is inserted, or the insert returns an error that
\* nobody reads, or the call throws into the handler's catch block
InlineAudit(s, r, record, catchStatus, catchError) ==
    \/ /\ audit_logs' = Append(audit_logs, record)
       /\ SetReq(s, Respond([r EXCEPT !.audited = TRUE], 200, ""))
    \/ /\ audit_logs' = audit_logs
       /\ SetReq(s, Respond(r, 200, ""))
    \/ /\ audit_logs' = audit_logs
       /\ SetReq(s, Respond(r, catchStatus, catchError))

UserPUT_audit(s) ==
    LET r == reqs[s]
    IN  /\ r.handler = "UserPUT"
        /\ r.pc = "audit"
        /\ InlineAudit(s, r, AuditRecord("UPDATE_USER", "user", r.id, r.current,
                                         r.data, r.user),
                       400, "Invalid request data")
        /\ UNCHANGED <<db, started, now, auth>>

(***************************************************************************)
(* DELETE /api/admin/users/[id]: deactivate                                *)
(***************************************************************************)
UserDELETE_arrive(s) ==
    \E actor \in Callers, id \in UserTargets, user \in getUser :
        ArriveUser(s, "UserDELETE", actor, "profiles", id, user)

UserDELETE_load(s) ==
    LET r   == reqs[s]
        cur == SelectSingle("profiles", r.id)
    IN  /\ r.handler = "UserDELETE"
        /\ r.pc = "load"
        /\ IF cur = NoRow
             THEN SetReq(s, Respond(r, 404, "User not found"))
             ELSE SetReq(s, [r EXCEPT !.current = cur, !.pc = "update"])
        /\ UNCHANGED <<db, audit_logs, started, now, auth>>

\* .update({status: "inactive", updated_at: new Date().toISOString()})
UserDELETE_update(s) ==
    LET r == reqs[s]
    IN  /\ r.handler = "UserDELETE"
        /\ r.pc = "update"
        /\ WriteStep(s, r, "profiles", [status |-> "inactive", updated_at |-> now])
        /\ UNCHANGED <<audit_logs, started, auth>>

UserDELETE_audit(s) ==
    LET r == reqs[s]
    IN  /\ r.handler = "UserDELETE"
        /\ r.pc = "audit"
        /\ InlineAudit(s, r, AuditRecord("DEACTIVATE_USER", "user", r.id, r.current,
                                         r.data, r.user),
                       500, "Failed to deactivate user")
        /\ UNCHANGED <<db, started, now, auth>>

(***************************************************************************)
(* PUT /api/admin/data/[table]/[id]: generic row update                    *)
(***************************************************************************)
DataPUT_arrive(s) ==
    \E actor \in Callers, table \in DataTables, user \in getUser :
        \E id \in DataTargets(table) :
            ArriveUser(s, "DataPUT", actor, table, id, user)

DataPUT_load(s) ==
    LET r   == reqs[s]
        cur == SelectSingle(r.table, r.id)
    IN  /\ r.handler = "DataPUT"
        /\ r.pc = "load"
        /\ \E updateData \in DataPayloads(r.table) \cup {Malformed} :
             LET q == [r EXCEPT !.payload = updateData]
             IN  IF updateData = Malformed
                   THEN SetReq(s, Respond(q, 400, "Invalid request data"))
                 ELSE IF cur = NoRow
                   THEN SetReq(s, Respond(q, 404, "Row not found"))
                 ELSE SetReq(s, [q EXCEPT !.current = cur, !.pc = "update"])
        /\ UNCHANGED <<db, audit_logs, started, now, auth>>

\* const { id: _, created_at, ...allowedUpdates } = updateData;
\* .update({...allowedUpdates, updated_at: new Date().toISOString()})
DataPUT_update(s) ==
    LET r == reqs[s]
    IN  /\ r.handler = "DataPUT"
        /\ r.pc = "update"
        /\ WriteStep(s, r, r.table,
                     [updated_at |-> now] @@ Without(r.payload, {"id", "created_at"}))
        /\ UNCHANGED <<audit_logs, started, auth>>

\* `UPDATE_${table.toUpperCase()}` and `DELETE_${table.toUpperCase()}`
DataAction(verb, table) ==
    CASE verb = "UPDATE" /\ table = "escrow_transactions" -> "UPDATE_ESCROW_TRANSACTIONS"
      [] verb = "UPDATE" /\ table = "profiles"            -> "UPDATE_PROFILES"
      [] verb = "DELETE" /\ table = "escrow_transactions" -> "DELETE_ESCROW_TRANSACTIONS"
      [] verb = "DELETE" /\ table = "profiles"            -> "DELETE_PROFILES"
      [] verb = "UPDATE" /\ table = "audit_logs"          -> "UPDATE_AUDIT_LOGS"
      [] verb = "DELETE" /\ table = "audit_logs"          -> "DELETE_AUDIT_LOGS"
      [] OTHER                                            -> "OTHER"

DataPUT_audit(s) ==
    LET r == reqs[s]
    IN  /\ r.handler = "DataPUT"
        /\ r.pc = "audit"
        /\ InlineAudit(s, r, AuditRecord(DataAction("UPDATE", r.table), r.table, r.id,
                                         r.current, r.data, r.user),
                       400, "Invalid request data")
        /\ UNCHANGED <<db, started, now, auth>>

(***************************************************************************)
(* DELETE /api/admin/data/[table]/[id]: generic row delete                 *)
(***************************************************************************)
DataDELETE_arrive(s) ==
    \E actor \in Callers, table \in DataTables, user \in getUser :
        \E id \in DataTargets(table) :
            ArriveUser(s, "DataDELETE", actor, table, id, user)

DataDELETE_load(s) ==
    LET r   == reqs[s]
        cur == SelectSingle(r.table, r.id)
    IN  /\ r.handler = "DataDELETE"
        /\ r.pc = "load"
        /\ IF cur = NoRow
             THEN SetReq(s, Respond(r, 404, "Row not found"))
             ELSE SetReq(s, [r EXCEPT !.current = cur, !.pc = "update"])
        /\ UNCHANGED <<db, audit_logs, started, now, auth>>

\* .from(table).delete().eq("id", id): the row is removed (deleting a row
\* that is already gone is no error), or the storage answers an error (500)
DataDELETE_delete(s) ==
    LET r == reqs[s]
    IN  /\ r.handler = "DataDELETE"
        /\ r.pc = "update"
        /\ \/ /\ IF r.table = "audit_logs"
                   THEN /\ audit_logs' = [i \in DOMAIN audit_logs |->
                                            IF LogId(i) = r.id THEN NoRow
                                                               ELSE audit_logs[i]]
                        /\ UNCHANGED db
                   ELSE /\ db' = [db EXCEPT ![r.table][r.id] = NoRow]
                        /\ UNCHANGED audit_logs
              /\ SetReq(s, [r EXCEPT !.written = TRUE,
                                     !.before = SelectSingle(r.table, r.id),
                                     !.pc = "audit"])
           \/ /\ SetReq(s, Respond(r, 500, "storage error"))
              /\ UNCHANGED <<db, audit_logs>>
        /\ UNCHANGED <<started, now, auth>>

DataDELETE_audit(s) ==
    LET r == reqs[s]
    IN  /\ r.handler = "DataDELETE"
        /\ r.pc = "audit"
        /\ InlineAudit(s, r, AuditRecord(DataAction("DELETE", r.table), r.table, r.id,
                                         r.current, NoRow, r.user),
                       500, "Failed to delete row")
        /\ UNCHANGED <<db, started, now, auth>>

Next ==
    \E s \in Slots :
        \/ TxPUT_arrive(s)
        \/ TxPUT_permission(s)
        \/ TxPUT_load(s)
        \/ TxPUT_update(s)
        \/ TxPUT_audit(s)
        \/ TxDELETE_arrive(s)
        \/ TxDELETE_permission(s)
        \/ TxDELETE_load(s)
        \/ TxDELETE_update(s)
        \/ TxDELETE_audit(s)
        \/ UserPUT_arrive(s)
        \/ UserPUT_load(s)
        \/ UserPUT_update(s)
        \/ UserPUT_audit(s)
        \/ UserDELETE_arrive(s)
        \/ UserDELETE_load(s)
        \/ UserDELETE_update(s)
        \/ UserDELETE_audit(s)
        \/ DataPUT_arrive(s)
        \/ DataPUT_load(s)
        \/ DataPUT_update(s)
        \/ DataPUT_audit(s)
        \/ DataDELETE_arrive(s)
        \/ DataDELETE_load(s)
        \/ DataDELETE_delete(s)
        \/ DataDELETE_audit(s)

Spec == Init /\ [][Next]_vars

(***************************************************************************)
(* GET /api/admin/data/[table] and GET /api/admin/data/[table]/schema      *)
(***************************************************************************)
\* params, requireAdmin (401), the table allow-list (403)
ArriveRead(s, handler, actor, table) ==
    LET a == requireAdmin(actor)
        r == [IdleReq EXCEPT !.handler = handler, !.actor = actor, !.table = table]
        q == [r EXCEPT !.adminId = actor]
        n == IF ~a.ok THEN Respond(r, a.status, a.error)
             ELSE IF table \notin allowedTables
               THEN Respond(q, 403, "Table not allowed")
             ELSE [q EXCEPT !.pc = "load"]
    IN  /\ Free(s)
        /\ \A x \in Slots : (x # s /\ Free(x)) => s = "r1"
        /\ started < MaxRequests
        /\ started' = started + 1
        /\ SetReq(s, n)
        /\ UNCHANGED <<db, audit_logs, now, auth>>

DataGET_arrive(s) ==
    \E actor \in Callers, table \in DataTables : ArriveRead(s, "DataGET", actor, table)

\* .from(table).select("*").order(...).limit(100): the rows (200), or a
\* storage error or a throw (500); nothing is written
DataGET_load(s) ==
    LET r == reqs[s]
    IN  /\ r.handler = "DataGET"
        /\ r.pc = "load"
        /\ \/ SetReq(s, Respond(r, 200, ""))
           \/ SetReq(s, Respond(r, 500, "Failed to fetch data"))
        /\ UNCHANGED <<db, audit_logs, started, now, auth>>

SchemaGET_arrive(s) ==
    \E actor \in Callers, table \in DataTables : ArriveRead(s, "SchemaGET", actor, table)

\* .rpc("get_table_schema", { table_name: table }): the schema (200), an error
\* (the fallback query follows), or a throw (500)
SchemaGET_rpc(s) ==
    LET r == reqs[s]
    IN  /\ r.handler = "SchemaGET"
        /\ r.pc = "load"
        /\ \/ SetReq(s, Respond(r, 200, ""))
           \/ SetReq(s, [r EXCEPT !.pc = "fallback"])
           \/ SetReq(s, Respond(r, 500, "Failed to fetch schema"))
        /\ UNCHANGED <<db, audit_logs, started, now, auth>>

\* the query on information_schema.columns
SchemaGET_fallback(s) ==
    LET r == reqs[s]
    IN  /\ r.handler = "SchemaGET"
        /\ r.pc = "fallback"
        /\ \/ SetReq(s, Respond(r, 200, ""))
           \/ SetReq(s, Respond(r, 500, "Failed to fetch schema"))
        /\ UNCHANGED <<db, audit_logs, started, now, auth>>

(***************************************************************************)
(* PUT and DELETE of a user_profiles row (lib/adminPermissions.ts)         *)
(***************************************************************************)
ProfilePayloads == {[verification_status |-> "verified"], Malformed}

\* the id of the path is the caller's: an account's, or one that no row has
ProfileTargets == UserTargets \cup {"u9"}

ProfilePUT_arrive(s) ==
    \E actor \in Callers, id \in ProfileTargets :
        Arrive(s, "ProfilePUT", actor, "user_profiles", id, "update")

\* updates = await request.json() outside any try block (a body that is not
\* JSON rejects the handler: 500), then .update(updates).eq("id", id).select():
\* no matching row is no error.  No audit record is written.
ProfilePUT_update(s) ==
    LET r   == reqs[s]
        row == SelectSingle("user_profiles", r.id)
    IN  /\ r.handler = "ProfilePUT"
        /\ r.pc = "update"
        /\ \E updates \in ProfilePayloads :
             LET q == [r EXCEPT !.payload = updates]
             IN  IF updates = Malformed
                   THEN /\ SetReq(s, Respond(q, 500, "Internal Server Error"))
                        /\ UNCHANGED db
                 ELSE IF row = NoRow
                   THEN /\ SetReq(s, Respond(q, 200, ""))
                        /\ UNCHANGED db
                 ELSE LET res == UpdateSingle("user_profiles", r.id, updates)
                      IN  \/ /\ ~res.error
                             /\ db' = [db EXCEPT !.user_profiles = res.table]
                             /\ SetReq(s, Respond([q EXCEPT !.before = row,
                                                            !.data = res.data,
                                                            !.written = TRUE], 200, ""))
                          \/ /\ SetReq(s, Respond(q, 500, "storage error"))
                             /\ UNCHANGED db
        /\ UNCHANGED <<audit_logs, started, now, auth>>

ProfileDELETE_arrive(s) ==
    \E actor \in Callers, id \in ProfileTargets :
        Arrive(s, "ProfileDELETE", actor, "user_profiles", id, "update")

\* .from("user_profiles").delete().eq("id", id): the row is removed (no
\* matching row is no error).  No audit record is written.
ProfileDELETE_delete(s) ==
    LET r   == reqs[s]
        row == SelectSingle("user_profiles", r.id)
    IN  /\ r.handler = "ProfileDELETE"
        /\ r.pc = "update"
        /\ \/ /\ db' = IF row = NoRow THEN db
                       ELSE [db EXCEPT !.user_profiles[r.id] = NoRow]
              /\ SetReq(s, Respond([r EXCEPT !.before = row,
                                             !.written = (row # NoRow)], 200, ""))
           \/ /\ SetReq(s, Respond(r, 500, "storage error"))
              /\ UNCHANGED db
        /\ UNCHANGED <<audit_logs, started, now, auth>>

(***************************************************************************)
(* The data-management handlers on their own: generic rows, the schema and *)
(* user_profiles.  The transaction was cancelled by the admin earlier, so  *)
(* the ledger holds the record of that cancel.                             *)
(***************************************************************************)
CancelledTx == Merge(InitialTx("pending"), [status |-> "cancelled", updated_at |-> 1])

InitData ==
    /\ db = [escrow_transactions |-> [t1 |-> CancelledTx, t9 |-> NoRow]]
            @@ InitialAccounts(InitialProfile("a1", "admin"))
    /\ audit_logs = << AuditRecord("CANCEL_TRANSACTION", "transaction", "t1",
                                   InitialTx("pending"), CancelledTx, "a1") >>
    /\ reqs = [s \in Slots |-> IdleReq]
    /\ started = 0
    /\ now = 2
    /\ auth = IdleAuth

NextData ==
    \E s \in Slots :
        \/ DataPUT_arrive(s)
        \/ DataPUT_load(s)
        \/ DataPUT_update(s)
        \/ DataPUT_audit(s)
        \/ DataDELETE_arrive(s)
        \/ DataDELETE_load(s)
        \/ DataDELETE_delete(s)
        \/ DataDELETE_audit(s)
        \/ DataGET_arrive(s)
        \/ DataGET_load(s)
        \/ SchemaGET_arrive(s)
        \/ SchemaGET_rpc(s)
        \/ SchemaGET_fallback(s)
        \/ ProfilePUT_arrive(s)
        \/ ProfilePUT_update(s)
        \/ ProfileDELETE_arrive(s)
        \/ ProfileDELETE_delete(s)

SpecData == InitData /\ [][NextData]_vars

(***************************************************************************)
(* Every handler that changes a row, over the same stored data.            *)
(***************************************************************************)
NextAdmin ==
    \/ Next
    \/ \E s \in Slots :
          \/ ProfilePUT_arrive(s)
          \/ ProfilePUT_update(s)
          \/ ProfileDELETE_arrive(s)
          \/ ProfileDELETE_delete(s)

SpecAdmin == InitData /\ [][NextAdmin]_vars

(***************************************************************************)
(* POST: a party creates a transaction (part_005)                          *)
(***************************************************************************)
\* the parties of the marketplace
PartyIds == {"u1", "u2"}

\* requireAuth() of lib/auth: the authenticated user, or an error response
requireAuth(actor) ==
    IF actor = NullStr THEN [ok |-> FALSE, status |-> 401, error |-> "Unauthorized"]
    ELSE [ok |-> TRUE, user |-> [id |-> actor]]

\* const auth = await requireAuth(); if (auth instanceof NextResponse) return auth;
ArriveParty(s, handler, actor, id, action, pc) ==
    LET a == requireAuth(actor)
        r == [IdleReq EXCEPT !.handler = handler, !.actor = actor,
                             !.table = "escrow_transactions", !.id = id,
                             !.action = action]
        n == IF a.ok THEN [r EXCEPT !.user = a.user.id, !.pc = pc]
                     ELSE Respond(r, a.status, a.error)
    IN  /\ Free(s)
        /\ \A x \in Slots : (x # s /\ Free(x)) => s = "r1"
        /\ started < MaxRequests
        /\ started' = started + 1
        /\ SetReq(s, n)
        /\ UNCHANGED <<db, audit_logs, now, auth>>

\* request bodies of a creation: the creator's role and the currency, some
\* with a status of their own, and a body that is not JSON
CreatePayloads ==
    {[role |-> ro, currency |-> cu] : ro \in {"Buyer", "Seller"}, cu \in {"USD", "EUR"}}
    \cup {[role |-> ro, currency |-> "USD", status |-> st] :
             ro \in {"Buyer", "Seller"}, st \in {"completed", "cancelled"}}
    \cup {Malformed}

\* the id the storage gives to an inserted row: one that no row has
FreeTxIds == {t \in TxIds : db.escrow_transactions[t] = NoRow}

NewTxId == CHOOSE t \in FreeTxIds : \A u \in FreeTxIds : t = "t1" \/ u # "t1"

TxPOST_arrive(s) ==
    \E actor \in PartyIds \cup {NullStr} : ArriveParty(s, "TxPOST", actor, "", "", "insert")

\* TxPOST_insert storing the status that the request body carries
TxPOST_insert_PayloadStatus(s) ==
    LET r == reqs[s]
    IN  /\ r.handler = "TxPOST"
        /\ r.pc = "insert"
        /\ \E body \in CreatePayloads :
             LET q   == [r EXCEPT !.payload = body]
                 row == [id         |-> NewTxId,
                         seller_id  |-> IF body.role = "Buyer" THEN NullStr ELSE r.user,
                         buyer_id   |-> IF body.role = "Buyer" THEN r.user ELSE NullStr,
                         currency   |-> body.currency,
                         status     |-> IF "status" \in DOMAIN body THEN body.status
                                                                    ELSE "pending",
                         created_at |-> now]
             IN  IF body = Malformed
                   THEN /\ SetReq(s, Respond(q, 500, "Internal Server Error"))
                        /\ UNCHANGED db
                 ELSE \/ /\ FreeTxIds # {}
                         /\ db' = [db EXCEPT !.escrow_transactions[NewTxId] = row]
                         /\ SetReq(s, Respond([q EXCEPT !.id = NewTxId, !.data = row,
                                                        !.written = TRUE], 200, ""))
                      \/ /\ SetReq(s, Respond(q, 500, "Failed to create transaction"))
                         /\ UNCHANGED db
        /\ UNCHANGED <<audit_logs, started, now, auth>>

\* const { title, role, currency, ... } = await request.json() (only the named
\* fields are read; a body that is not JSON throws into the catch block),
\* then the insert with status: "pending"; an insert error or an empty
\* result answers 500
TxPOST_insert(s) ==
    LET r == reqs[s]
    IN  /\ r.handler = "TxPOST"
        /\ r.pc = "insert"
        /\ \E body \in CreatePayloads :
             LET q   == [r EXCEPT !.payload = body]
                 row == [id         |-> NewTxId,
                         seller_id  |-> IF body.role = "Buyer" THEN NullStr ELSE r.user,
                         buyer_id   |-> IF body.role = "Buyer" THEN r.user ELSE NullStr,
                         currency   |-> body.currency,
                         status     |-> "pending",
                         created_at |-> now]
             IN  IF body = Malformed
                   THEN /\ SetReq(s, Respond(q, 500, "Internal Server Error"))
                        /\ UNCHANGED db
                 ELSE \/ /\ FreeTxIds # {}
                         /\ db' = [db EXCEPT !.escrow_transactions[NewTxId] = row]
                         /\ SetReq(s, Respond([q EXCEPT !.id = NewTxId, !.data = row,
                                                        !.written = TRUE], 200, ""))
                      \/ /\ SetReq(s, Respond(q, 500, "Failed to create transaction"))
                         /\ UNCHANGED db
        /\ UNCHANGED <<audit_logs, started, now, auth>>

\* the store before a creation: no transaction yet, or one at any stage
InitCreate ==
    /\ \E row \in {NoRow} \cup {InitialTx(st) : st \in States} :
         db = [escrow_transactions |-> [t1 |-> row, t9 |-> NoRow]]
              @@ InitialAccounts(InitialProfile("a1", "admin"))
    /\ audit_logs = << >>
    /\ reqs = [s \in Slots |-> IdleReq]
    /\ started = 0
    /\ now = 1
    /\ auth = IdleAuth

NextCreate == \E s \in Slots : TxPOST_arrive(s) \/ TxPOST_insert(s)

SpecCreate == InitCreate /\ [][NextCreate]_vars

(***************************************************************************)
(* The parties' actions on a transaction (the buttons of TransactionPage): *)
(* the action is validated against the transition table of the status and  *)
(* then persisted and recorded like an admin action.                       *)
(***************************************************************************)
\* postAction("accept"), ("deliver"), ("confirm-receipt"), ("cancel")
PartyActions == {"accept", "deliver", "confirm-receipt", "cancel"}

\* applyTransition that accepts from every status that is not terminal
applyTransition_AcceptFromAny(current, action) ==
    IF current \in Terminal THEN [ok |-> FALSE]
    ELSE CASE action = "accept" -> [ok |-> TRUE, status |-> "in_progress"]
           [] action = "deliver" /\ current = "in_progress" ->
                  [ok |-> TRUE, status |-> "delivered"]
           [] action = "confirm-receipt" /\ current = "delivered" ->
                  [ok |-> TRUE, status |-> "completed"]
           [] action = "cancel" /\ current \in {"pending", "in_progress", "delivered"} ->
                  [ok |-> TRUE, status |-> "cancelled"]
           [] action = "raise-dispute" -> [ok |-> TRUE, status |-> "disputed"]
           [] OTHER -> [ok |-> FALSE]

\* applyTransition(current, action): the new status, or InvalidTransitionError
applyTransition(current, action) ==
    IF current \in Terminal THEN [ok |-> FALSE]
    ELSE CASE action = "accept" /\ current = "pending" ->
                  [ok |-> TRUE, status |-> "in_progress"]
           [] action = "deliver" /\ current = "in_progress" ->
                  [ok |-> TRUE, status |-> "delivered"]
           [] action = "confirm-receipt" /\ current = "delivered" ->
                  [ok |-> TRUE, status |-> "completed"]
           [] action = "cancel" /\ current \in {"pending", "in_progress", "delivered"} ->
                  [ok |-> TRUE, status |-> "cancelled"]
           [] action = "raise-dispute" -> [ok |-> TRUE, status |-> "disputed"]
           [] OTHER -> [ok |-> FALSE]

PartyAction_arrive(s) ==
    \E actor \in PartyIds \cup {NullStr}, id \in TxTargets, action \in PartyActions :
        ArriveParty(s, "PartyAction", actor, id, action, "load")

\* the current snapshot (NotFound when there is none), then the validator
PartyAction_load(s) ==
    LET r   == reqs[s]
        cur == SelectSingle("escrow_transactions", r.id)
    IN  /\ r.handler = "PartyAction"
        /\ r.pc = "load"
        /\ IF cur = NoRow
             THEN SetReq(s, Respond(r, 404, "NotFound"))
           ELSE LET t == applyTransition(cur.status, r.action)
                IN  IF ~t.ok
                      THEN SetReq(s, Respond([r EXCEPT !.current = cur], 400,
                                             "InvalidTransition"))
                    ELSE SetReq(s, [r EXCEPT !.current = cur,
                                             !.payload = [status |-> t.status],
                                             !.pc = "update"])
        /\ UNCHANGED <<db, audit_logs, started, now, auth>>

\* the single-row update keyed by id
PartyAction_update(s) ==
    LET r == reqs[s]
    IN  /\ r.handler = "PartyAction"
        /\ r.pc = "update"
        /\ WriteStep(s, r, "escrow_transactions",
                     [status |-> r.payload.status, updated_at |-> now])
        /\ UNCHANGED <<audit_logs, started, auth>>

\* the audit record of the action; a failed append does not undo the update
PartyAction_audit(s) ==
    LET r == reqs[s]
    IN  /\ r.handler = "PartyAction"
        /\ r.pc = "audit"
        /\ \E log \in logAdminAction(r.user, r.action, "transaction", r.id,
                                     r.current, r.data) :
             /\ audit_logs' = log
             /\ SetReq(s, Respond([r EXCEPT !.audited = (log # audit_logs)], 200, ""))
        /\ UNCHANGED <<db, started, now, auth>>

NextParty ==
    \E s \in Slots :
        \/ PartyAction_arrive(s)
        \/ PartyAction_load(s)
        \/ PartyAction_update(s)
        \/ PartyAction_audit(s)

SpecParty == Init /\ [][NextParty]_vars

(***************************************************************************)
(* The two transaction handlers on their own.                              *)
(***************************************************************************)
TxSteps(s) ==
    \/ TxPUT_permission(s)
    \/ TxPUT_load(s)
    \/ TxPUT_update(s)
    \/ TxPUT_audit(s)
    \/ TxDELETE_permission(s)
    \/ TxDELETE_load(s)
    \/ TxDELETE_update(s)
    \/ TxDELETE_audit(s)

NextTx == \E s \in Slots : TxPUT_arrive(s) \/ TxDELETE_arrive(s) \/ TxSteps(s)

SpecTx == Init /\ [][NextTx]_vars

(***************************************************************************)
(* Two administrators act on the same transaction at once: a cancel        *)
(* (DELETE) and an update (PUT) have both passed requireAdmin and are in   *)
(* flight; their awaits interleave.                                        *)
(***************************************************************************)
InFlight(handler, actor, id) ==
    [IdleReq EXCEPT !.handler = handler, !.actor = actor, !.adminId = actor,
                    !.table = "escrow_transactions", !.id = id, !.pc = "permission"]

InitRace ==
    /\ \E st \in States :
         db = [escrow_transactions |-> [t1 |-> InitialTx(st), t9 |-> NoRow]]
              @@ InitialAccounts(InitialProfile("a1", "admin"))
    /\ audit_logs = << >>
    /\ \E c \in ActorIds, u \in ActorIds :
         reqs = [s \in Slots |-> IF s = "r1" THEN InFlight("TxDELETE", c, "t1")
                                              ELSE InFlight("TxPUT", u, "t1")]
    /\ started = Cardinality(Slots)
    /\ now = 1
    /\ auth = IdleAuth

NextRace == \E s \in Slots : TxSteps(s)

SpecRace == InitRace /\ [][NextRace]_vars

(***************************************************************************)
(* Two updates of the same transaction at once: a PUT of the transaction   *)
(* and a second one, or the generic row PUT on escrow_transactions, are in *)
(* flight; their awaits interleave.                                        *)
(***************************************************************************)
\* the generic PUT after requireAdmin, the allow-list and getUser
InFlightData(actor, user, id) ==
    [IdleReq EXCEPT !.handler = "DataPUT", !.actor = actor, !.adminId = actor,
                    !.user = user, !.table = "escrow_transactions", !.id = id,
                    !.pc = "load"]

InitUpdates ==
    /\ db = [escrow_transactions |-> [t1 |-> InitialTx("in_progress"), t9 |-> NoRow]]
            @@ InitialAccounts(InitialProfile("a1", "admin"))
    /\ audit_logs = << >>
    /\ \E a \in ActorIds, b \in ActorIds :
         \E second \in {InFlight("TxPUT", b, "t1"), InFlightData(b, a, "t1")} :
             reqs = [s \in Slots |-> IF s = "r1" THEN InFlight("TxPUT", a, "t1")
                                                  ELSE second]
    /\ started = Cardinality(Slots)
    /\ now = 1
    /\ auth = IdleAuth

UpdateSteps(s) ==
    \/ TxPUT_permission(s)
    \/ TxPUT_load(s)
    \/ TxPUT_update(s)
    \/ TxPUT_audit(s)
    \/ DataPUT_load(s)
    \/ DataPUT_update(s)
    \/ DataPUT_audit(s)

NextUpdates == \E s \in Slots : UpdateSteps(s)

SpecUpdates == InitUpdates /\ [][NextUpdates]_vars

(***************************************************************************)
(* The permission check and listing on their own: the role stored for the  *)
(* admin ranges over the role strings, and the check and the listing are   *)
(* applied for every permission identifier.                                *)
(***************************************************************************)
\* role strings a profile row may hold (null included)
RoleValues ==
    {"admin", "Admin", "moderator", "Moderator", "super_admin", "superAdmin",
     "user", NullStr}

\* every identifier of the catalog, and one that is not in it
PermissionInputs == Range(PermissionValues) \cup {"export_reports"}

InitAuth ==
    /\ \E p \in {InitialProfile("a1", role) : role \in RoleValues} \cup {NoRow} :
         db = [escrow_transactions |-> [t1 |-> InitialTx("pending"), t9 |-> NoRow]]
              @@ InitialAccounts(p)
    /\ audit_logs = << >>
    /\ reqs = [s \in Slots |-> IdleReq]
    /\ started = 0
    /\ now = 1
    /\ auth = IdleAuth

AuthCheck ==
    /\ \E adminId \in ActorIds, permission \in PermissionInputs :
         \E lookup \in ProfileLookup(db.profiles, adminId) :
            auth' = [kind |-> "check", adminId |-> adminId, permission |-> permission,
                     lookup |-> lookup,
                     allowed |-> hasAdminPermission(lookup, permission)]
    /\ UNCHANGED <<db, audit_logs, reqs, started, now>>

AuthList ==
    /\ \E adminId \in ActorIds :
         \E lookup \in ProfileLookup(db.profiles, adminId) :
            auth' = [kind |-> "list", adminId |-> adminId, lookup |-> lookup,
                     permissions |-> getAdminPermissions(lookup)]
    /\ UNCHANGED <<db, audit_logs, reqs, started, now>>

\* the listing and the check called for the same admin, each with its own
\* lookup of the profile
AuthBoth ==
    /\ \E adminId \in ActorIds, permission \in PermissionInputs :
         \E lookup \in ProfileLookup(db.profiles, adminId),
            listLookup \in ProfileLookup(db.profiles, adminId) :
            auth' = [kind |-> "both", adminId |-> adminId, permission |-> permission,
                     lookup |-> lookup,
                     allowed |-> hasAdminPermission(lookup, permission),
                     listLookup |-> listLookup,
                     permissions |-> getAdminPermissions(listLookup)]
    /\ UNCHANGED <<db, audit_logs, reqs, started, now>>

NextAuth == AuthCheck \/ AuthList \/ AuthBoth

SpecAuth == InitAuth /\ [][NextAuth]_vars

(***************************************************************************)
(* Properties.                                                             *)
(***************************************************************************)
\* the request whose step this is: its frame changed, and was not dropped
Stepped(s) == reqs'[s] # reqs[s] /\ reqs'[s].pc # "idle"

TxRow(t) == db.escrow_transactions[t]

\* the transition table of the escrow transaction's status
TransitionTable ==
    {<<"pending", "in_progress">>, <<"in_progress", "delivered">>,
     <<"delivered", "completed">>, <<"disputed", "completed">>,
     <<"disputed", "cancelled">>}
    \cup ({"pending", "in_progress", "delivered"} \X {"cancelled"})
    \cup ((States \ Terminal) \X {"disputed"})

\* C1 (as claimed): no step of an admin update (PUT) or cancel (DELETE) of a
\* transaction changes the status of a transaction whose stored status is
\* completed or cancelled.
C1_TerminalStatusImmutable ==
    [][\A s \in Slots :
         (Stepped(s) /\ reqs'[s].handler \in {"TxPUT", "TxDELETE"}) =>
            \A t \in TxIds :
               (TxRow(t) # NoRow /\ TxRow(t).status \in Terminal) =>
                  /\ TxRow(t)' # NoRow
                  /\ TxRow(t)'.status = TxRow(t).status]_vars

\* C2: a step of a cancel request that read its target as completed changes
\* no table and no audit record, and answers 400.
C2_CancelCompletedRejected ==
    [][\A s \in Slots :
         (/\ Stepped(s)
          /\ reqs'[s].handler = "TxDELETE"
          /\ reqs'[s].current # NoRow
          /\ reqs'[s].current.status = "completed") =>
            /\ db' = db
            /\ audit_logs' = audit_logs
            /\ reqs'[s].pc = "done"
            /\ reqs'[s].response.status = 400]_vars

\* C2 witness: a cancel request found its target completed and was answered 400
C2_Witness ==
    \E s \in Slots :
        /\ reqs[s].handler = "TxDELETE"
        /\ reqs[s].pc = "done"
        /\ reqs[s].current # NoRow
        /\ reqs[s].current.status = "completed"
        /\ reqs[s].response.status = 400
        /\ TxRow("t1").status = "completed"

\* C3 (as claimed): every change of a stored status made by a step of the
\* admin update is an edge of the transition table.
C3_StatusChangesFollowTable ==
    [][\A s \in Slots :
         (Stepped(s) /\ reqs'[s].handler = "TxPUT") =>
            \A t \in TxIds :
               (TxRow(t) # NoRow /\ TxRow(t)' # NoRow
                  /\ TxRow(t)'.status # TxRow(t).status) =>
                  <<TxRow(t).status, TxRow(t)'.status>> \in TransitionTable]_vars

\* C4 (as claimed): an admin update that found its row and whose payload sets
\* status to a value outside the six states is answered 400, has written
\* nothing and has appended no audit record.
C4_UnknownStatusRejected ==
    \A s \in Slots :
        (/\ reqs[s].handler = "TxPUT"
         /\ reqs[s].pc = "done"
         /\ reqs[s].current # NoRow
         /\ "status" \in DOMAIN reqs[s].payload
         /\ reqs[s].payload.status \notin States) =>
            /\ reqs[s].response.status = 400
            /\ ~reqs[s].written
            /\ ~reqs[s].audited

\* C5 (as claimed): no step of an admin update changes the amount, the buyer
\* or the seller of a transaction whose stored status is terminal.
C5_TerminalPartiesAndAmountFrozen ==
    [][\A s \in Slots :
         (Stepped(s) /\ reqs'[s].handler \in {"TxPUT", "DataPUT"}) =>
            \A t \in TxIds :
               (TxRow(t) # NoRow /\ TxRow(t).status \in Terminal) =>
                  /\ TxRow(t)' # NoRow
                  /\ TxRow(t)'.amount = TxRow(t).amount
                  /\ TxRow(t)'.buyer_id = TxRow(t).buyer_id
                  /\ TxRow(t)'.seller_id = TxRow(t).seller_id]_vars

\* the lookup resolved a profile
Resolved(lookup) == ~lookup.throws /\ ~lookup.error /\ lookup.profile # NoRow

\* permission p is listed in the catalog entry of the role
CatalogLists(role, p) ==
    \E key \in DOMAIN ADMIN_ROLES :
        /\ key = toUpperCase(role)
        /\ p \in Range(ADMIN_ROLES[key].permissions)

\* C6: for a resolved role other than admin, the check allows a permission
\* exactly when the role's catalog entry lists it.
C6_NonTopRoleAllowedIffListed ==
    (/\ auth.kind = "check"
     /\ Resolved(auth.lookup)
     /\ auth.lookup.profile.role # "admin") =>
        (auth.allowed <=>
           (/\ auth.lookup.profile.role # NullStr
            /\ CatalogLists(auth.lookup.profile.role, auth.permission)))

\* C6 witness: a moderator is allowed edit_users, which its entry lists
C6_Witness ==
    /\ auth.kind = "check"
    /\ Resolved(auth.lookup)
    /\ auth.lookup.profile.role = "moderator"
    /\ auth.permission = ADMIN_PERMISSIONS.EDIT_USERS
    /\ auth.allowed

\* C7: for the resolved role admin the check allows every permission
\* identifier, whatever the catalog lists.
C7_TopRoleAllowsEverything ==
    (/\ auth.kind = "check"
     /\ Resolved(auth.lookup)
     /\ auth.lookup.profile.role = "admin") => auth.allowed

\* C7 witness: admin is allowed an identifier that no catalog entry lists
C7_Witness ==
    /\ auth.kind = "check"
    /\ Resolved(auth.lookup)
    /\ auth.lookup.profile.role = "admin"
    /\ auth.permission \notin Range(PermissionValues)
    /\ auth.allowed

\* the lookup failed, returned no profile or threw, or the role has no entry
NoCatalogRole(lookup) ==
    \/ ~Resolved(lookup)
    \/ lookup.profile.role = NullStr
    \/ /\ lookup.profile.role # "admin"
       /\ toUpperCase(lookup.profile.role) \notin DOMAIN ADMIN_ROLES

\* C8: when the lookup fails or the role has no catalog entry, the check
\* denies and the listing is empty.
C8_DenyByDefault ==
    /\ (auth.kind = "check" /\ NoCatalogRole(auth.lookup)) => ~auth.allowed
    /\ (auth.kind = "list" /\ NoCatalogRole(auth.lookup)) => auth.permissions = << >>

\* C8 witness: a null role was checked and denied
C8_Witness ==
    /\ auth.kind = "check"
    /\ Resolved(auth.lookup)
    /\ auth.lookup.profile.role = NullStr
    /\ ~auth.allowed

\* the role stored for the caller of the request
RoleOf(id) == IF db.profiles[id] = NoRow THEN NullStr ELSE db.profiles[id].role

\* C9 (as claimed): no step of a request of a moderator that removes or
\* cancels a transaction changes the transactions or the audit ledger.
C9_ModeratorCannotRemoveTransaction ==
    [][\A s \in Slots :
         (/\ Stepped(s)
          /\ \/ reqs'[s].handler = "TxDELETE"
             \/ reqs'[s].handler = "DataDELETE" /\ reqs'[s].table = "escrow_transactions"
          /\ reqs'[s].adminId \in ActorIds
          /\ reqs'[s].user \in {NullStr, reqs'[s].adminId}
          /\ RoleOf(reqs'[s].adminId) = "moderator") =>
            /\ db'.escrow_transactions = db.escrow_transactions
            /\ audit_logs' = audit_logs]_vars

\* C10 (as claimed): a request that has read or written an entity row or the
\* audit ledger has passed the permission check.
C10_PermissionCheckedBeforeAnyAccess ==
    \A s \in Slots :
        (reqs[s].current # NoRow \/ reqs[s].written \/ reqs[s].audited) =>
            reqs[s].hasPermission = "allow"

\* C11 (as claimed): no step of an update request (user update, generic row
\* update on profiles) of an actor whose own account has role admin leaves
\* that account with another role.
C11_OwnAdminRoleKept ==
    [][\A s \in Slots : \A a \in ActorIds :
         (/\ Stepped(s)
          /\ reqs'[s].handler \in {"UserPUT", "DataPUT"}
          /\ reqs'[s].adminId = a
          /\ reqs'[s].user = a
          /\ RoleOf(a) = "admin") => RoleOf(a)' = "admin"]_vars

\* C12 (as claimed): no step of a request whose actor is its target account
\* (deactivate, or an update) makes that account's stored status inactive.
C12_NoSelfDeactivation ==
    [][\A s \in Slots : \A a \in ActorIds :
         (/\ Stepped(s)
          /\ reqs'[s].handler \in {"UserPUT", "UserDELETE", "DataPUT"}
          /\ reqs'[s].table = "profiles"
          /\ reqs'[s].adminId = a
          /\ reqs'[s].user = a
          /\ reqs'[s].id = a
          /\ db.profiles[a] # NoRow
          /\ db.profiles[a].status # "inactive") =>
            /\ db'.profiles[a] # NoRow
            /\ db'.profiles[a].status # "inactive"]_vars

\* the update handlers
UpdateHandlers == {"TxPUT", "UserPUT", "DataPUT"}

\* C15 (as claimed): the write of every update handler keeps the row's id and
\* created_at, applies every other field of the payload and sets updated_at
\* to the time of the update.
C15_SystemColumnsStripped ==
    [][\A s \in Slots :
         (/\ Stepped(s)
          /\ reqs'[s].handler \in UpdateHandlers
          /\ reqs'[s].written /\ ~reqs[s].written) =>
            /\ reqs'[s].data.id = reqs'[s].before.id
            /\ reqs'[s].data.created_at = reqs'[s].before.created_at
            /\ reqs'[s].data.updated_at = now
            /\ \A f \in DOMAIN reqs'[s].payload \ {"id", "created_at"} :
                  reqs'[s].data[f] = reqs'[s].payload[f]]_vars

\* C17 (as claimed): no step removes the row of an account.
C17_AccountsNeverRemoved ==
    [][\A u \in ActorIds :
         db.profiles[u] # NoRow => db'.profiles[u] # NoRow]_vars

\* C20 (as claimed): no step of a cancel request overwrites a stored status
\* completed with cancelled, however the cancel interleaves with a
\* concurrent update that completes the transaction.
C20_CompletedNotCancelledUnderRace ==
    [][\A s \in Slots :
         (Stepped(s) /\ reqs'[s].handler = "TxDELETE") =>
            \A t \in TxIds :
               (TxRow(t) # NoRow /\ TxRow(t).status = "completed") =>
                  /\ TxRow(t)' # NoRow
                  /\ TxRow(t)'.status = "completed"]_vars

\* C13 (as claimed): a request that was answered after it persisted a
\* mutation has appended its audit record, and one that persisted nothing
\* has appended none.
C13_OneAuditRecordPerMutation ==
    \A s \in Slots :
        reqs[s].pc = "done" => (reqs[s].written <=> reqs[s].audited)

\* C14 (as claimed): every record of the audit ledger stays in it, unchanged.
C14_LedgerAppendOnly ==
    [][\A i \in DOMAIN audit_logs :
         /\ i \in DOMAIN audit_logs'
         /\ audit_logs'[i] = audit_logs[i]]_vars

\* the handlers of generic rows and of the schema
GenericHandlers == {"DataPUT", "DataDELETE", "DataGET", "SchemaGET"}

\* C16: every step of a generic request whose table is outside the allow-list
\* is its rejection (403, or 401 from requireAdmin): it has read no row,
\* written nothing, and leaves every table and the ledger as they were.
C16_TableOutsideAllowListRejected ==
    [][\A s \in Slots :
         (/\ Stepped(s)
          /\ reqs'[s].handler \in GenericHandlers
          /\ reqs'[s].table \notin allowedTables) =>
            /\ reqs'[s].pc = "done"
            /\ reqs'[s].response.status \in {401, 403}
            /\ reqs'[s].current = NoRow
            /\ ~reqs'[s].written
            /\ ~reqs'[s].audited
            /\ db' = db
            /\ audit_logs' = audit_logs]_vars

\* C16 witness: an authenticated admin's generic update of a table outside
\* the allow-list was answered 403 and the tables are as they were
C16_Witness ==
    \E s \in Slots :
        /\ reqs[s].handler = "DataPUT"
        /\ reqs[s].table = "secrets"
        /\ reqs[s].adminId = "a1"
        /\ reqs[s].pc = "done"
        /\ reqs[s].response.status = 403
        /\ db.escrow_transactions["t1"] = CancelledTx
        /\ Len(audit_logs) = 1

\* C18: the row that a step of the creation handler inserts has status
\* pending, whatever the request body carries, and it is the row stored.
C18_CreatedPending ==
    [][\A s \in Slots :
         (/\ Stepped(s)
          /\ reqs'[s].handler = "TxPOST"
          /\ reqs'[s].written) =>
            /\ reqs'[s].data.status = "pending"
            /\ db.escrow_transactions[reqs'[s].id] = NoRow
            /\ db'.escrow_transactions[reqs'[s].id] = reqs'[s].data
            /\ \A t \in TxIds \ {reqs'[s].id} :
                  db'.escrow_transactions[t] = db.escrow_transactions[t]]_vars

\* C18 witness: a creation whose body carried status completed was answered
\* 200 and its row is stored as pending
C18_Witness ==
    \E s \in Slots :
        /\ reqs[s].handler = "TxPOST"
        /\ reqs[s].pc = "done"
        /\ reqs[s].response.status = 200
        /\ "status" \in DOMAIN reqs[s].payload
        /\ reqs[s].payload.status = "completed"
        /\ db.escrow_transactions[reqs[s].id] # NoRow
        /\ db.escrow_transactions[reqs[s].id].status = "pending"

\* the status from which a party action succeeds, and the status it yields
PartySource(action) ==
    CASE action = "accept"          -> {"pending"}
      [] action = "deliver"         -> {"in_progress"}
      [] action = "confirm-receipt" -> {"delivered"}
      [] action = "cancel"          -> {"pending", "in_progress", "delivered"}

PartyTarget(action) ==
    CASE action = "accept"          -> "in_progress"
      [] action = "deliver"         -> "delivered"
      [] action = "confirm-receipt" -> "completed"
      [] action = "cancel"          -> "cancelled"

\* C19: a party action that wrote had loaded the status it succeeds from and
\* stored the status it yields; one that loaded any other status (cancel on
\* a completed transaction included) was answered 400 as an invalid
\* transition and wrote nothing.
C19_PartyActionsFollowTable ==
    \A s \in Slots :
        (reqs[s].handler = "PartyAction" /\ reqs[s].current # NoRow) =>
            /\ reqs[s].written =>
                  /\ reqs[s].current.status \in PartySource(reqs[s].action)
                  /\ reqs[s].data.status = PartyTarget(reqs[s].action)
            /\ reqs[s].current.status \notin PartySource(reqs[s].action) =>
                  /\ reqs[s].pc = "done"
                  /\ reqs[s].response = [status |-> 400, error |-> "InvalidTransition"]
                  /\ ~reqs[s].written

\* C19 witness: confirm-receipt on a delivered transaction was answered 200
\* and the transaction is stored as completed
C19_Witness ==
    \E s \in Slots :
        /\ reqs[s].handler = "PartyAction"
        /\ reqs[s].action = "confirm-receipt"
        /\ reqs[s].pc = "done"
        /\ reqs[s].response.status = 200
        /\ reqs[s].current.status = "delivered"
        /\ TxRow("t1").status = "completed"

\* the step of slot s is the one that appends its audit record
Audits(s) == Stepped(s) /\ reqs'[s].audited /\ ~reqs[s].audited

\* the record that the step appended
Appended == audit_logs'[Len(audit_logs')]

\* C21 (as claimed): the audit record of a mutation has as snapshot-before
\* the row that was stored when the mutation's write was applied, and as
\* snapshot-after the row stored by that write.
C21_AuditSnapshotsMatchWrite ==
    [][\A s \in Slots :
         Audits(s) =>
            /\ Len(audit_logs') = Len(audit_logs) + 1
            /\ Appended.old_value = reqs[s].before
            /\ Appended.new_value = reqs[s].data]_vars

\* C23 (as claimed): a request that persisted its mutation and whose audit
\* append did not get into the ledger is answered with a degraded success:
\* not an error status, and not the answer of a fully successful action.
C23_AuditGapSignalled ==
    \A s \in Slots :
        (/\ reqs[s].handler \in {"TxPUT", "TxDELETE", "UserPUT", "UserDELETE",
                                 "DataPUT", "DataDELETE"}
         /\ reqs[s].pc = "done"
         /\ reqs[s].written
         /\ ~reqs[s].audited) =>
            /\ reqs[s].response.status < 400
            /\ reqs[s].response # [status |-> 200, error |-> ""]

\* C26 (as claimed): a cancel request that read its target as disputed or
\* cancelled is rejected: none of its steps changes the transaction or the
\* ledger.
C26_CancelOnlyFromOpenStatus ==
    [][\A s \in Slots :
         (/\ Stepped(s)
          /\ reqs'[s].handler = "TxDELETE"
          /\ reqs'[s].current # NoRow
          /\ reqs'[s].current.status \in {"disputed", "cancelled"}) =>
            /\ db' = db
            /\ audit_logs' = audit_logs
            /\ reqs'[s].pc = "done"
            /\ reqs'[s].response.status = 400]_vars

\* the records of the ledger that are about transaction rows
TxRecords == {i \in DOMAIN audit_logs : audit_logs[i].entity_type = "transaction"}

\* C28 (as claimed): of two audit records of a transaction whose writes were
\* applied one right after the other, the snapshot-after of the first is the
\* snapshot-before of the second.
C28_AuditChainContinuous ==
    \A i \in TxRecords : \A j \in TxRecords :
        (audit_logs[j].new_value.updated_at = audit_logs[i].new_value.updated_at + 1) =>
            audit_logs[j].old_value = audit_logs[i].new_value

\* C29 (as claimed): the audit record that a request appends names as
\* performed_by the identity that passed requireAdmin for that request.
C29_PerformedByIsAuthorizedActor ==
    [][\A s \in Slots :
         (Audits(s) /\ reqs[s].handler # "PartyAction") =>
            Appended.performed_by = reqs[s].adminId]_vars

\* C30 (as claimed): a request of a mutating handler that was answered with
\* an error status has not written its entity.
C30_ErrorResponseMeansNoWrite ==
    \A s \in Slots :
        (reqs[s].pc = "done" /\ reqs[s].response.status # 200) => ~reqs[s].written

ChangeHandlers == {"TxPUT", "TxDELETE", "UserPUT", "UserDELETE", "DataPUT", "ProfilePUT"}

\* the step in which a handler first goes to the table for its target
Reaches(s) ==
    /\ Stepped(s)
    /\ reqs[s].handler \in ChangeHandlers
    /\ \/ reqs[s].pc = "load"
       \/ reqs[s].handler = "ProfilePUT" /\ reqs[s].pc = "update"

\* C24: an update, cancel or deactivate request with a readable body whose
\* target id has no stored row is answered 404 in the step that looks for the
\* row, and that step changes no table and appends no audit record.
C24_MissingTargetIsNotFound ==
    [][\A s \in Slots :
         (/\ Reaches(s)
          /\ SelectSingle(reqs[s].table, reqs[s].id) = NoRow
          /\ reqs'[s].payload # Malformed) =>
            /\ reqs'[s].pc = "done"
            /\ reqs'[s].response.status = 404
            /\ db' = db
            /\ audit_logs' = audit_logs]_vars

\* the request of slot s is answered with an error in this step
Fails(s) ==
    /\ Stepped(s)
    /\ reqs'[s].pc = "done"
    /\ reqs'[s].response.status >= 400

C22_WitnessDenied ==
    \E s \in Slots :
        /\ reqs[s].handler = "TxDELETE"
        /\ reqs[s].hasPermission = "deny"
        /\ reqs[s].response.status = 403
        /\ db.escrow_transactions["t1"] = CancelledTx

\* the request of slot s writes its row in this step
Writes(s) == Stepped(s) /\ reqs'[s].written /\ ~reqs[s].written

\* the columns the update of slot s sends to the table
Sent(s) ==
    IF reqs[s].handler = "DataPUT"
      THEN [updated_at |-> now] @@ Without(reqs[s].payload, {"id", "created_at"})
      ELSE [updated_at |-> now] @@ reqs[s].payload

\* after the write of slot s every column it sent has its value, and every
\* other column has the value stored before (the other update's, where that
\* one wrote it)
LastWriteWins(s) ==
    LET old == db[reqs[s].table][reqs[s].id]
        new == db'[reqs[s].table][reqs'[s].data.id]
    IN  /\ new = reqs'[s].data
        /\ \A f \in DOMAIN new :
              new[f] = IF f \in DOMAIN Sent(s) THEN Sent(s)[f] ELSE old[f]

\* the request of slot s is answered as a success in this step
Succeeds(s) ==
    /\ Stepped(s)
    /\ reqs'[s].pc = "done"
    /\ reqs'[s].response.status = 200

\* the ledger gains one record, the one of slot s
OwnRecord(s) ==
    /\ Len(audit_logs') = Len(audit_logs) + 1
    /\ SubSeq(audit_logs', 1, Len(audit_logs)) = audit_logs
    /\ Appended.entity_id = reqs[s].id
    /\ Appended.new_value = reqs[s].data

\* the two updates in flight, each write taken on its own
UpdatesSerialize == [][\A s \in Slots : Writes(s) => LastWriteWins(s)]_vars

\* C25: with two updates of one row in flight, each write leaves the columns
\* it sent at its values and the others as stored (so a column sent by both
\* holds the later write's value), and an update that is answered as a
\* success when the other one has written too has appended its own audit
\* record.
C25_ConcurrentUpdatesSerializeAndAudit ==
    [][\A s \in Slots :
         /\ Writes(s) => LastWriteWins(s)
         /\ (Succeeds(s) /\ \A x \in Slots \ {s} : reqs[x].written) =>
                OwnRecord(s)]_vars

====
